---- MODULE Spec2Model ----
(***************************************************************************)
(* Model of the demo single-page application: the shared API client       *)
(* (apiService: request interceptor, response interceptor with the        *)
(* refresh-on-401 rule), the auth calls (login / register / logout), the  *)
(* forms that call them, the route table of App and the route guard       *)
(* ProtectedRoute / isTokenValid.                                          *)
(*                                                                         *)
(* JavaScript runs handlers to completion, so one action is one handler   *)
(* run: from the event that starts it (a submit, a render, the arrival of *)
(* a network answer) up to the next await or the end of the promise chain *)
(* that the event settles.                                                 *)
(***************************************************************************)
EXTENDS Integers, Sequences, FiniteSets, TLC

\* ------------------------------------------------------------------ bounds
MaxSec == 1        \* largest exp claim, in seconds, of a modelled token
MaxReq == 1        \* number of requests that can be in flight together in Spec
MaxConc == 2       \* number of requests in flight side by side in SpecConc
MaxNest == 4       \* length of the chain of requests in SpecGuide

\* ---------------------------------------------------------- string values
\* A token string is the sequence of its dot-separated segments.  A segment
\* records its text, whether it is base64url-encoded JSON, and the exp claim
\* of that JSON when it has one.
Seg(raw, json, hasExp, exp) ==
  [raw |-> raw, json |-> json, hasExp |-> hasExp, exp |-> exp]

Junk(raw) == Seg(raw, FALSE, FALSE, 0)

Jwt(id, exp) == << Junk("hdr"), Seg(id, TRUE, TRUE, exp), Junk("sig") >>

JwtNoExp == << Junk("hdr"), Seg("noexp", TRUE, FALSE, 0), Junk("sig") >>

BadPayload == << Junk("hdr"), Junk("%%%"), Junk("sig") >>

NotAJwt == << Junk("not-a-jwt") >>

EmptyString == << >>

\* what String(x) / `${x}` gives for a plain object
ObjectString == << Junk("[object Object]") >>

\* what String(undefined) gives
UndefinedString == << Junk("undefined") >>

\* access tokens the server hands out in login and register answers
LoginTokens == { Jwt("B", e) : e \in 1..MaxSec }

\* the access token the server hands out in a refresh answer
RefreshedToken == Jwt("R", MaxSec)

\* ----------------------------------------------------------- localStorage
Keys == {"token", "accessToken", "refreshToken", "authToken"}

Null == [present |-> FALSE, val |-> EmptyString]

Item(s) == [present |-> TRUE, val |-> s]

\* JavaScript truthiness of a string-or-null value
Truthy(v) == v.present /\ v.val # EmptyString

setItem(S, k, s) == [S EXCEPT ![k] = Item(s)]

removeItem(S, k) == [S EXCEPT ![k] = Null]

\* values that key `token` can hold when the page is opened
InitTokens ==
  {Null, Item(EmptyString), Item(NotAJwt), Item(BadPayload), Item(JwtNoExp)}
    \cup { Item(Jwt("A", e)) : e \in 1..MaxSec }

\* wall-clock instants (milliseconds) the model looks at: the start, and for
\* every modelled exp the instant it names and the millisecond after it
ClockPoints == {0} \cup { s * 1000 + d : s \in 1..MaxSec, d \in {0, 1} }

\* ------------------------------------------------------------ route guard
\* jwtDecode(token) of the jwt-decode package: takes the second segment and
\* parses it; throws when the segment is missing or is not encoded JSON.
jwtDecode(token) ==
  IF Len(token) < 2 THEN [threw |-> TRUE, payload |-> Junk("")]
  ELSE IF ~token[2].json THEN [threw |-> TRUE, payload |-> Junk("")]
  ELSE [threw |-> FALSE, payload |-> token[2]]

\* the comparison with >= in place of >
ExpAfterOrAt(payload, nowMs) == payload.hasExp /\ payload.exp * 1000 >= nowMs

\* decoded.exp * 1000 > Date.now(); a missing exp gives NaN and NaN > n is
\* false
ExpAfter(payload, nowMs) == payload.hasExp /\ payload.exp * 1000 > nowMs

\* isTokenValid without its try / catch
isTokenValidNoCatch(token, nowMs) ==
  IF ~Truthy(token) THEN [threw |-> FALSE, value |-> FALSE]
  ELSE LET decoded == jwtDecode(token.val)
       IN IF decoded.threw
            THEN [threw |-> TRUE, value |-> FALSE]
            ELSE [threw |-> FALSE, value |-> ExpAfter(decoded.payload, nowMs)]

\* isTokenValid(token), with Date.now() = nowMs.  The outcome tells whether
\* the call threw and, if not, the value it returned.
isTokenValid(token, nowMs) ==
  IF ~Truthy(token) THEN [threw |-> FALSE, value |-> FALSE]
  ELSE LET decoded == jwtDecode(token.val)
       IN IF decoded.threw
            THEN [threw |-> FALSE, value |-> FALSE]
            ELSE [threw |-> FALSE, value |-> ExpAfter(decoded.payload, nowMs)]

\* ------------------------------------------------------------------ state
VARIABLES
  storage,     \* localStorage: key -> string or null
  now,         \* Date.now(), milliseconds
  location,    \* path shown by the router
  view,        \* page component on screen; "pending" = not rendered yet
  guard,       \* outcome of the guard when the last step was a guarded render
  effect,      \* Dashboard is mounted and its useEffect has not run yet
  navPending,  \* target of a window.location.href assignment not yet loaded
  toast,       \* message shown when the last step showed one, else "none"
  terminal,    \* a refresh has failed and no login or registration followed
  formData,    \* the fields of the AddPokemonForm on screen (its state)
  typed,       \* the fields that the submit handler of the last step read
  reqs         \* the requests sent through the API client

vars ==
  << storage, now, location, view, guard, effect, navPending, toast,
     terminal, formData, typed, reqs >>

Paths == {"/", "/login", "/register", "/dashboard", "/add-pokemon", "/other"}

Protected == {"Dashboard", "AddPokemon"}

NoNav == "-"

getItem(k) == storage[k]

\* --------------------------------------------------------------- requests
\* the requests the page can have in flight at once: one record per slot,
\* the number of slots being fixed where the behaviour starts
Slots == DOMAIN reqs

NoHeader == [scheme |-> "none", cred |-> EmptyString]

\* `Bearer ${s}`
Bearer(s) == [scheme |-> "Bearer", cred |-> s]

NoToken == Null

Idle ==
  [pc |-> "idle", kind |-> "none", retry |-> FALSE, auth |-> NoHeader,
   sends |-> 0, refreshes |-> 0, redirects |-> 0, n401 |-> 0,
   outcome |-> "none", by |-> "none", status |-> 0, rstatus |-> 0,
   issued |-> NoToken, body |-> NoToken, success |-> FALSE]

\* a settled request is forgotten by the step after the one that settled it
Sweep(R) == [r \in Slots |-> IF R[r].pc = "done" THEN Idle ELSE R[r]]

\* the lowest slot that holds no request in flight, 0 when there is none
FreeSlot ==
  IF \E r \in Slots : reqs[r].pc \in {"idle", "done"}
    THEN CHOOSE r \in Slots :
           /\ reqs[r].pc \in {"idle", "done"}
           /\ \A q \in Slots : reqs[q].pc \in {"idle", "done"} => r <= q
    ELSE 0

\* String(v), `${v}`, v.toString(): a string is itself, a plain object is "[object Object]"
toString(v) == IF v.type = "string" THEN v.str ELSE ObjectString

\* the response object axios resolves with: the parsed body is its `data`
AxiosResponse(ans) ==
  [type |-> "object", status |-> ans.status,
   data |-> [token |-> ans.token, success |-> ans.success]]

\* obj.name read for its truthiness: a property the object lacks is undefined
TruthyProp(obj, name) == name \in DOMAIN obj /\ obj[name] = TRUE

\* what the server (or the network) can answer to a request: whether an HTTP
\* answer came at all, its status, and the token and success fields of its
\* body (NoToken and FALSE when the body has none)
Answer(has, status, token, success) ==
  [hasResponse |-> has, status |-> status, token |-> token,
   success |-> success]

NetworkError == Answer(FALSE, 0, NoToken, FALSE)

Answers(kind) ==
  { Answer(TRUE, 200, t, ok) :
      t \in (IF kind \in {"login", "register"}
               THEN {NoToken} \cup { Item(x) : x \in LoginTokens }
               ELSE {NoToken}),
      ok \in (IF kind \in {"register", "addPokemon"}
                THEN BOOLEAN ELSE {FALSE}) }
    \cup { Answer(TRUE, st, NoToken, FALSE) : st \in {401, 403, 500} }
    \cup { NetworkError }

RefreshAnswers ==
  { Answer(TRUE, st, Item(RefreshedToken), FALSE) : st \in {200, 201} }
    \cup { Answer(TRUE, 401, NoToken, FALSE), NetworkError }

\* axios' default validateStatus
validateStatus(status) == status >= 200 /\ status < 300

\* api.interceptors.request.use, success handler; S is localStorage
requestInterceptor(config, S) ==
  LET token == S["token"]
  IN IF Truthy(token)
       THEN [config EXCEPT !.auth = Bearer(token.val)]
       ELSE config

\* api(config): the request interceptor runs and the request goes out.  The
\* config of the retry is the original one, _retry mark included.
Send(config, S) ==
  [requestInterceptor(config, S) EXCEPT !.pc = "sent", !.sends = @ + 1]

\* a retried mark kept in one place for all requests
NewRequestSharedMark(kind) ==
  [Idle EXCEPT !.kind = kind, !.retry = \E q \in Slots : reqs[q].retry]

\* api.get / api.post of a caller: a fresh config
NewRequest(kind) == [Idle EXCEPT !.kind = kind]

\* a single-flight refresh: no refresh call while another one is in flight
ShouldRefreshSingleFlight(status, originalRequest) ==
  /\ status = 401
  /\ ~originalRequest.retry
  /\ ~\E q \in Slots : reqs[q].pc = "refreshing"

\* a refresh branch entered on every error status
ShouldRefreshAnyError(status, originalRequest) ==
  status >= 400 /\ ~originalRequest.retry

\* the refresh branch without the one-shot _retry mark
ShouldRefreshAlways(status, originalRequest) == status = 401

\* response interceptor, error handler: the condition of the refresh branch
ShouldRefresh(status, originalRequest) ==
  status = 401 /\ ~originalRequest.retry

\* a refresh test that lets every resolved refresh call through
IsStatus200Any2xx(newToken) == TRUE

\* `newToken.status !== 200` negated: the refresh answer counts as a success
IsStatus200(newToken) == newToken.status = 200

\* a refresh branch that stores what it got under the key the guard reads
RefreshStoreUnderToken(S, newToken) == setItem(S, "token", toString(newToken))

\* localStorage.setItem('accessToken', newToken)
RefreshStore(S, newToken) == setItem(S, "accessToken", toString(newToken))

\* the body of the refresh call: { token: localStorage.getItem('refreshToken') }
RefreshBody(S) == [token |-> S["refreshToken"]]

\* a catch branch that hands the original error on
RejectOriginal(config, refreshStatus) ==
  [config EXCEPT !.outcome = "rejected", !.by = "response", !.status = 401,
                 !.rstatus = refreshStatus, !.redirects = @ + 1]

\* catch (refreshError): return Promise.reject(refreshError).  The error is
\* the one axios rejected the refresh call with (status 0 when it carries no
\* response) or the Error thrown at the status test (no response either).
RejectRefreshError(config, refreshStatus) ==
  [config EXCEPT !.outcome = "rejected", !.by = "refresh",
                 !.status = IF validateStatus(refreshStatus)
                              THEN 0 ELSE refreshStatus,
                 !.rstatus = refreshStatus, !.redirects = @ + 1]

\* ------------------------------------------------------------- App routes
\* no form is on screen
NoForm == [none |-> TRUE]

\* the nine fields of the AddPokemonForm
Fields ==
  {"name", "type", "level", "hp", "attack", "defense", "spAtk", "spDef",
   "speed"}

\* useState(...) of the AddPokemonForm when view v mounts it: every field
\* empty
MountState(v) ==
  IF v = "AddPokemon" THEN [f \in Fields |-> ""] ELSE NoForm

Show(v) ==
  /\ view' = v
  /\ effect' = (v = "Dashboard")
  /\ formData' = MountState(v)
  /\ UNCHANGED location

\* <Navigate to=... replace />
Navigate(to) ==
  /\ location' = to
  /\ view' = "pending"
  /\ effect' = FALSE
  /\ formData' = NoForm

\* a guard that lets every render through
ProtectedRouteOpen(children) ==
  /\ guard' = "allow"
  /\ Show(children)
  /\ storage' = storage
  /\ reqs' = Sweep(reqs)
  /\ toast' = "none"
  /\ typed' = NoForm
  /\ UNCHANGED << now, navPending, terminal >>

\* a guard that also deletes the token it turns down
ProtectedRouteClearing(children) ==
  LET token == getItem("token")
      res   == isTokenValid(token, now)
  IN /\ IF res.value
          THEN guard' = "allow" /\ Show(children) /\ storage' = storage
          ELSE /\ guard' = "deny"
               /\ Navigate("/login")
               /\ storage' = removeItem(storage, "token")
     /\ reqs' = Sweep(reqs)
     /\ toast' = "none"
     /\ typed' = NoForm
     /\ UNCHANGED << now, navPending, terminal >>

\* a guard that sends a turned-down render to the root path
ProtectedRouteToRoot(children) ==
  LET token == getItem("token")
      res   == isTokenValid(token, now)
  IN /\ IF res.value
          THEN guard' = "allow" /\ Show(children)
          ELSE guard' = "deny" /\ Navigate("/")
     /\ storage' = storage
     /\ reqs' = Sweep(reqs)
     /\ toast' = "none"
     /\ typed' = NoForm
     /\ UNCHANGED << now, navPending, terminal >>

\* ProtectedRoute({ children })
ProtectedRoute(children) ==
  LET token == getItem("token")
      res   == isTokenValid(token, now)
  IN /\ IF res.threw
          THEN /\ guard' = "threw"
               /\ view' = "crashed"
               /\ effect' = FALSE
               /\ formData' = NoForm
               /\ UNCHANGED location
          ELSE IF res.value
            THEN guard' = "allow" /\ Show(children)
            ELSE guard' = "deny" /\ Navigate("/login")
     /\ storage' = storage
     /\ reqs' = Sweep(reqs)
     /\ toast' = "none"
     /\ typed' = NoForm
     /\ UNCHANGED << now, navPending, terminal >>

Unguarded(element) ==
  /\ element
  /\ guard' = "none"
  /\ toast' = "none"
  /\ typed' = NoForm
  /\ reqs' = Sweep(reqs)
  /\ UNCHANGED << storage, now, navPending, terminal >>

\* one render pass of <Routes>
App ==
  /\ view = "pending"
  /\ CASE location = "/login"       -> Unguarded(Show("Login"))
       [] location = "/register"    -> Unguarded(Show("Register"))
       [] location = "/dashboard"   -> ProtectedRoute("Dashboard")
       [] location = "/add-pokemon" -> ProtectedRoute("AddPokemon")
       [] location = "/"            -> Unguarded(Navigate("/login"))
       [] OTHER                     -> Unguarded(Navigate("/dashboard"))

\* ------------------------------------------------------------ environment
\* time passes
Tick ==
  /\ \E t \in ClockPoints : t > now /\ now' = t
  /\ guard' = "none"
  /\ toast' = "none"
  /\ typed' = NoForm
  /\ reqs' = Sweep(reqs)
  /\ UNCHANGED << storage, location, view, effect, navPending, terminal,
                  formData >>

\* a document load: the page's scripts start afresh, storage stays
Load(path) ==
  /\ location' = path
  /\ view' = "pending"
  /\ effect' = FALSE
  /\ guard' = "none"
  /\ toast' = "none"
  /\ typed' = NoForm
  /\ navPending' = NoNav
  /\ formData' = NoForm
  /\ reqs' = [r \in Slots |-> Idle]
  /\ UNCHANGED << storage, now, terminal >>

\* the user opens a path (address bar, or one of the pages' <a href> links)
UserNavigate == \E p \in Paths : Load(p)

\* the document named by an earlier window.location.href assignment loads
PageLoad == navPending # NoNav /\ Load(navPending)

\* ------------------------------------------------------------ the callers
\* the value `await api.post(...)` / `await api.get(...)` resolved with: the
\* response interceptor hands the axios response object on as it is
ResolvedValue(config) ==
  AxiosResponse(Answer(TRUE, config.status, config.body, config.success))

\* localStorage.setItem(key, v) turns v into a string: undefined becomes
\* "undefined"
StringOf(v) == IF v.present THEN v.val ELSE UndefinedString

\* a LoginForm that stores the token under another key
LoginFormStoreOtherKey(data, S) ==
  IF Truthy(data) THEN setItem(S, "accessToken", data.val) ELSE S

\* LoginForm.handleSubmit after `await login(...)` resolved with data
LoginFormStore(data, S) ==
  IF Truthy(data) THEN setItem(S, "token", data.val) ELSE S

\* RegisterForm.handleSubmit: localStorage.setItem('token', response.token)
RegisterFormStore(data, S) == setItem(S, "token", StringOf(data))

\* logout() after its `await api.post(...)` resolved
LogoutStore(S) == removeItem(S, "token")

\* the handler ends without leaving the page: S, N and T are localStorage,
\* the pending document load and the terminal mark as they stand, msg the
\* toast it shows
Stay(S, N, T, msg) ==
  /\ storage' = S
  /\ navPending' = N
  /\ terminal' = T
  /\ toast' = msg
  /\ typed' = NoForm
  /\ UNCHANGED << location, view, effect, formData >>

\* navigate('/dashboard') after the token went into localStorage
EnterDashboard(S, N) ==
  /\ storage' = S
  /\ location' = "/dashboard"
  /\ view' = "pending"
  /\ effect' = FALSE
  /\ navPending' = N
  /\ terminal' = FALSE
  /\ toast' = "none"
  /\ typed' = NoForm
  /\ formData' = NoForm

\* LoginForm.handleSubmit from the point where `await login(...)` settles;
\* login() hands on response.data
LoginFormContinue(config, S, N, T) ==
  IF config.outcome = "resolved"
    THEN LET response == ResolvedValue(config).data
         IN IF Truthy(response.token)
              THEN EnterDashboard(LoginFormStore(response.token, S), N)
              ELSE Stay(S, N, T, "login-failed")
    ELSE Stay(S, N, T, "error")

\* RegisterForm.handleSubmit from the point where `await register(...)`
\* settles; register() hands on response.data
RegisterFormContinue(config, S, N, T) ==
  IF config.outcome = "resolved"
    THEN LET response == ResolvedValue(config).data
         IN IF response.success
              THEN EnterDashboard(RegisterFormStore(response.token, S), N)
              ELSE Stay(S, N, T, "register-failed")
    ELSE Stay(S, N, T, "error")

\* a logout handler that leaves for /login whether or not the call failed
handleLogoutAlwaysLeaves(config, S, N, T) ==
  Stay(IF config.outcome = "resolved" THEN LogoutStore(S) ELSE S,
       "/login", T, "none")

\* logout() and Dashboard.handleLogout from the point where the POST settles
handleLogoutContinue(config, S, N, T) ==
  IF config.outcome = "resolved"
    THEN \* removeItem('token') in logout(); then window.location.href
         Stay(LogoutStore(S), "/login", T, "none")
    ELSE \* console.error
         Stay(S, N, T, "none")

\* fetchPokemonData from the point where `await api.get(...)` settles: the
\* list goes into component state or the error onto the console
fetchPokemonDataContinue(config, S, N, T) == Stay(S, N, T, "none")

\* AddPokemonForm.handleSubmit from the point where `await api.post(...)`
\* settles: it reads `success` off the resolved value
AddPokemonFormContinue(config, S, N, T) ==
  IF config.outcome = "resolved"
    THEN LET response == ResolvedValue(config)
         IN IF TruthyProp(response, "success")
              THEN \* setSubmitted(true); toast.success; setFormData(empty)
                   /\ storage' = S
                   /\ navPending' = N
                   /\ terminal' = T
                   /\ toast' = "added"
                   /\ typed' = NoForm
                   /\ formData' = [f \in Fields |-> ""]
                   /\ UNCHANGED << location, view, effect >>
              ELSE Stay(S, N, T, "add-failed")
    ELSE Stay(S, N, T, "error")

\* The rest of the caller's handler, run when the request config settles.
\* S, N and T are localStorage, the pending document load and the terminal
\* mark as the response interceptor left them.
Caller(config, S, N, T) ==
  CASE config.kind = "login"      -> LoginFormContinue(config, S, N, T)
    [] config.kind = "register"   -> RegisterFormContinue(config, S, N, T)
    [] config.kind = "logout"     -> handleLogoutContinue(config, S, N, T)
    [] config.kind = "addPokemon" -> AddPokemonFormContinue(config, S, N, T)
    [] OTHER                      -> fetchPokemonDataContinue(config, S, N, T)

\* the promise of request r settles as config says; its caller goes on
Settle(r, config, S, N, T) ==
  /\ reqs' = [Sweep(reqs) EXCEPT ![r] = [config EXCEPT !.pc = "done"]]
  /\ Caller(config, S, N, T)

\* a handler stops at a failed check: nothing but the toast changes
Refuse(msg) ==
  /\ reqs' = Sweep(reqs)
  /\ toast' = msg

\* a handler reaches its `await`: the request of the given kind goes out
Dispatch(kind) ==
  /\ FreeSlot # 0
  /\ reqs' = [Sweep(reqs) EXCEPT ![FreeSlot] = Send(NewRequest(kind), storage)]
  /\ toast' = "none"

\* LoginForm: the fields as the user typed them (handleChange), then
\* handleSubmit up to `await login(...)`
LoginSubmit ==
  /\ view = "Login"
  /\ \E username \in {"", "ash"}, password \in {<< >>, << "a", "s", "h" >>} :
       /\ typed' = [username |-> username, password |-> password]
       /\ IF username = "" \/ password = << >>
            THEN Refuse("fill-fields")
            ELSE Dispatch("login")
  /\ guard' = "none"
  /\ UNCHANGED << storage, now, location, view, effect, navPending,
                  terminal, formData >>

\* passwords a user may type, as sequences of characters
Passwords ==
  { << >>, << "a", "s", "h" >>, << "p", "i", "k", "a", "c", "h", "u" >> }

\* `password.length < 6`
MinPasswordLength == 6

\* a RegisterForm without the check of the password's length
RegisterSubmitAnyLength ==
  /\ view = "Register"
  /\ \E username \in {"", "ash"}, password \in Passwords :
       /\ typed' = [username |-> username, password |-> password]
       /\ IF username = "" \/ password = << >>
            THEN Refuse("fill-fields")
            ELSE Dispatch("register")
  /\ guard' = "none"
  /\ UNCHANGED << storage, now, location, view, effect, navPending,
                  terminal, formData >>

\* RegisterForm: the fields as the user typed them (handleChange), then
\* handleSubmit up to `await register(...)`
RegisterSubmit ==
  /\ view = "Register"
  /\ \E username \in {"", "ash"}, password \in Passwords :
       /\ typed' = [username |-> username, password |-> password]
       /\ IF username = "" \/ password = << >>
            THEN Refuse("fill-fields")
            ELSE IF Len(password) < MinPasswordLength
              THEN Refuse("short-password")
              ELSE Dispatch("register")
  /\ guard' = "none"
  /\ UNCHANGED << storage, now, location, view, effect, navPending,
                  terminal, formData >>

\* form contents a user may submit: all filled, one left empty, all empty
FormInputs ==
  { [f \in Fields |-> "1"],
    [f \in Fields |-> IF f = "speed" THEN "" ELSE "1"],
    [f \in Fields |-> ""] }

\* AddPokemonForm: the fields as the user typed them (handleChange), then
\* handleSubmit up to `await api.post(...)`
AddPokemonSubmit ==
  /\ view = "AddPokemon"
  /\ \E entered \in FormInputs :
       /\ formData' = entered
       /\ IF \E f \in Fields : entered[f] = ""
            THEN Refuse("fill-fields")
            ELSE Dispatch("addPokemon")
  /\ typed' = NoForm
  /\ guard' = "none"
  /\ UNCHANGED << storage, now, location, view, effect, navPending,
                  terminal >>

\* Dashboard's useEffect: fetchPokemonData up to `await api.get(...)`
DashboardEffect ==
  /\ view = "Dashboard"
  /\ effect
  /\ Dispatch("pokemons")
  /\ effect' = FALSE
  /\ guard' = "none"
  /\ typed' = NoForm
  /\ UNCHANGED << storage, now, location, view, navPending, terminal, formData >>

\* Dashboard.handleLogout up to `await api.post(...)` inside logout()
LogoutClick ==
  /\ view = "Dashboard"
  /\ Dispatch("logout")
  /\ guard' = "none"
  /\ typed' = NoForm
  /\ UNCHANGED << storage, now, location, view, effect, navPending,
                  terminal, formData >>

\* -------------------------------------------------- response interceptor
\* the answer to request r arrives
Response(r) ==
  /\ reqs[r].pc = "sent"
  /\ guard' = "none"
  /\ UNCHANGED now
  /\ \E ans \in Answers(reqs[r].kind) :
       LET cfg == reqs[r] IN
       IF ans.hasResponse /\ validateStatus(ans.status)
         THEN \* (response) => response
              Settle(r, [cfg EXCEPT !.outcome = "resolved",
                                    !.by = "response",
                                    !.status = ans.status,
                                    !.body = ans.token,
                                    !.success = ans.success],
                     storage, navPending, terminal)
         ELSE IF ~ans.hasResponse
           THEN \* error.response is undefined: reading .status throws
                Settle(r, [cfg EXCEPT !.outcome = "rejected",
                                      !.by = "TypeError",
                                      !.status = 0],
                       storage, navPending, terminal)
           ELSE LET c1 == [cfg EXCEPT
                             !.status = ans.status,
                             !.n401 = IF ans.status = 401 THEN @ + 1 ELSE @]
                IN IF ShouldRefresh(ans.status, c1)
                     THEN \* originalRequest._retry = true; axios.post(...)
                          /\ reqs' = [Sweep(reqs) EXCEPT
                                        ![r] = [c1 EXCEPT
                                                  !.retry = TRUE,
                                                  !.pc = "refreshing",
                                                  !.refreshes = @ + 1]]
                          /\ toast' = "none"
                          /\ typed' = NoForm
                          /\ UNCHANGED << storage, location, view, effect,
                                          navPending, terminal, formData >>
                     ELSE \* return Promise.reject(error)
                          Settle(r, [c1 EXCEPT !.outcome = "rejected",
                                               !.by = "response"],
                                 storage, navPending, terminal)

\* the answer to the refresh call made for request r arrives
RefreshResponse(r) ==
  /\ reqs[r].pc = "refreshing"
  /\ guard' = "none"
  /\ UNCHANGED now
  /\ \E ans \in RefreshAnswers :
       LET cfg      == reqs[r]
           newToken == AxiosResponse(ans)
       IN IF ans.hasResponse /\ validateStatus(ans.status)
             /\ IsStatus200(newToken)
            THEN \* setItem('accessToken', newToken); header; api(original)
                 LET S1 == RefreshStore(storage, newToken)
                     c1 == [cfg EXCEPT !.auth = Bearer(toString(newToken)),
                                       !.rstatus = ans.status,
                                       !.issued = ans.token]
                 IN /\ storage' = S1
                    /\ reqs' = [Sweep(reqs) EXCEPT ![r] = Send(c1, S1)]
                    /\ toast' = "none"
                    /\ typed' = NoForm
                    /\ UNCHANGED << location, view, effect, navPending,
                                    terminal, formData >>
            ELSE \* catch (refreshError)
                 Settle(r, RejectRefreshError(cfg, ans.status),
                        removeItem(storage, "accessToken"), "/login", TRUE)

\* ------------------------------------------- the guide's client (axios.js)
\* The guide's api instance keeps its token under `accessToken`, and its
\* refreshToken() posts to /auth/refresh through the same instance, so the
\* refresh request passes the same two interceptors.  The requests form a
\* chain: slot 1 holds the caller's request, slot r + 1 the refresh request
\* that the interceptor awaits on behalf of slot r.

\* api.interceptors.request.use of axios.js
guideRequestInterceptor(config, S) ==
  LET token == S["accessToken"]
  IN IF Truthy(token)
       THEN [config EXCEPT !.auth = Bearer(token.val)]
       ELSE config

\* api(config) of axios.js
guideSend(config, S) ==
  [guideRequestInterceptor(config, S) EXCEPT !.pc = "sent", !.sends = @ + 1]

\* what the server can answer to a request of the guide's client
guideAnswers(kind) ==
  IF kind = "refresh"
    THEN { Answer(TRUE, 200, Item(RefreshedToken), FALSE),
           Answer(TRUE, 401, NoToken, FALSE),
           NetworkError }
    ELSE { Answer(TRUE, st, NoToken, FALSE) : st \in {200, 401, 500} }
           \cup { NetworkError }

\* a caller sends a request through the guide's client
guideRequest ==
  /\ \A r \in Slots : reqs[r].pc \in {"idle", "done"}
  /\ reqs' = [Sweep(reqs) EXCEPT
                ![1] = guideSend(NewRequest("pokemons"), storage)]
  /\ guard' = "none"
  /\ toast' = "none"
  /\ typed' = NoForm
  /\ UNCHANGED << storage, now, location, view, effect, navPending,
                  terminal, formData >>

\* request r of the chain is fulfilled with the body `data`
guideFulfilled(r, cfg, data) ==
  IF r = 1
    THEN \* the caller has its answer
         /\ reqs' = [Sweep(reqs) EXCEPT
                       ![1] = [cfg EXCEPT !.pc = "done",
                                          !.outcome = "resolved",
                                          !.by = "response"]]
         /\ UNCHANGED << storage, navPending >>
    ELSE \* refreshToken() returns response.data.accessToken to the
         \* interceptor run of request r - 1: setItem, header, api(original)
         LET newToken == StringOf(data)
             S1       == setItem(storage, "accessToken", newToken)
             c1       == [reqs[r - 1] EXCEPT !.auth = Bearer(newToken),
                                             !.issued = data]
         IN /\ storage' = S1
            /\ reqs' = [Sweep(reqs) EXCEPT ![r] = Idle,
                                           ![r - 1] = guideSend(c1, S1)]
            /\ UNCHANGED navPending

\* request r of the chain is rejected: the catch block of every interceptor
\* run waiting below it runs in turn, down to the caller's request
guideRejected(r, cfg, by) ==
  /\ reqs' = [q \in Slots |->
                IF q = 1
                  THEN [(IF r = 1 THEN cfg ELSE reqs[1]) EXCEPT
                          !.pc = "done",
                          !.outcome = "rejected",
                          !.by = IF r = 1 THEN by ELSE "refresh",
                          !.redirects = IF r = 1 THEN @ ELSE @ + 1]
                  ELSE Idle]
  /\ IF r = 1
       THEN UNCHANGED << storage, navPending >>
       ELSE /\ storage' = removeItem(storage, "accessToken")
            /\ navPending' = "/login"

\* the answer to request r of the chain arrives
guideResponse(r) ==
  /\ reqs[r].pc = "sent"
  /\ guard' = "none"
  /\ toast' = "none"
  /\ typed' = NoForm
  /\ UNCHANGED << now, location, view, effect, terminal, formData >>
  /\ \E ans \in guideAnswers(reqs[r].kind) :
       LET cfg == [reqs[r] EXCEPT
                     !.status = ans.status,
                     !.n401 = IF ans.hasResponse /\ ans.status = 401
                                THEN @ + 1 ELSE @]
       IN IF ans.hasResponse /\ validateStatus(ans.status)
            THEN guideFulfilled(r, cfg, ans.token)
            ELSE IF ~ans.hasResponse
              THEN \* error.response is undefined: reading .status throws
                   guideRejected(r, cfg, "TypeError")
              ELSE IF ShouldRefresh(ans.status, cfg)
                THEN \* originalRequest._retry = true; await refreshToken()
                     /\ r + 1 \in Slots
                     /\ reqs' = [Sweep(reqs) EXCEPT
                                   ![r] = [cfg EXCEPT !.retry = TRUE,
                                                      !.pc = "refreshing",
                                                      !.refreshes = @ + 1],
                                   ![r + 1] = guideSend(NewRequest("refresh"),
                                                        storage)]
                     /\ UNCHANGED << storage, navPending >>
                ELSE \* return Promise.reject(error)
                     guideRejected(r, cfg, "response")

\* ------------------------------------ the auth notes' global interceptor
\* The interceptor of the notes sits on the global axios, tests only the
\* status, and retries with axios(error.config).  It keeps no mark and no
\* count on the request, and neither does the model: sends, refreshes and
\* n401 stay as the first dispatch set them.  What refreshToken() does is
\* not part of the notes' example; the await either yields a token or
\* throws.

\* a caller sends a request through the global axios
notesRequest ==
  /\ FreeSlot # 0
  /\ reqs' = [Sweep(reqs) EXCEPT
                ![FreeSlot] = [NewRequest("pokemons") EXCEPT !.pc = "sent",
                                                             !.sends = 1]]
  /\ guard' = "none"
  /\ toast' = "none"
  /\ typed' = NoForm
  /\ UNCHANGED << storage, now, location, view, effect, navPending,
                  terminal, formData >>

\* the answer to request r arrives
notesResponse(r) ==
  /\ reqs[r].pc = "sent"
  /\ guard' = "none"
  /\ toast' = "none"
  /\ typed' = NoForm
  /\ UNCHANGED << storage, now, location, view, effect, navPending,
                  terminal, formData >>
  /\ \E ans \in Answers("pokemons") :
       LET cfg == [reqs[r] EXCEPT !.status = ans.status]
       IN reqs' = [Sweep(reqs) EXCEPT ![r] =
            IF ans.hasResponse /\ validateStatus(ans.status)
              THEN \* (response) => response
                   [cfg EXCEPT !.pc = "done", !.outcome = "resolved",
                               !.by = "response"]
              ELSE IF ~ans.hasResponse
                THEN \* error.response is undefined: reading .status throws
                     [cfg EXCEPT !.pc = "done", !.outcome = "rejected",
                                 !.by = "TypeError"]
                ELSE IF ans.status = 401
                  THEN \* await refreshToken()
                       [cfg EXCEPT !.pc = "refreshing"]
                  ELSE \* return Promise.reject(error)
                       [cfg EXCEPT !.pc = "done", !.outcome = "rejected",
                                   !.by = "response"]]

\* the refreshToken() awaited for request r settles
notesRefreshDone(r) ==
  /\ reqs[r].pc = "refreshing"
  /\ guard' = "none"
  /\ toast' = "none"
  /\ typed' = NoForm
  /\ UNCHANGED << now, location, view, effect, terminal, formData >>
  /\ \/ \* it yields a token: header, then axios(error.config)
        /\ reqs' = [Sweep(reqs) EXCEPT
                      ![r] = [reqs[r] EXCEPT
                                !.pc = "sent",
                                !.auth = Bearer(RefreshedToken),
                                !.issued = Item(RefreshedToken)]]
        /\ UNCHANGED << storage, navPending >>
     \/ \* it throws: the catch block, then `return Promise.reject(error)`
        /\ reqs' = [Sweep(reqs) EXCEPT
                      ![r] = [reqs[r] EXCEPT
                                !.pc = "done",
                                !.outcome = "rejected",
                                !.by = "response",
                                !.redirects = 1]]
        /\ storage' = removeItem(storage, "authToken")
        /\ navPending' = "/login"

\* ================================================================ claims
\* the request in slot r goes out in this step (first dispatch or retry)
DispatchAt(r) == reqs[r].pc # "sent" /\ reqs'[r].pc = "sent"

\* the request in slot r is re-dispatched after a refresh in this step
RetryAt(r) == reqs[r].pc = "refreshing" /\ reqs'[r].pc = "sent"

\* the promise of the request in slot r settles in this step
SettleAt(r) == reqs[r].pc \in {"sent", "refreshing"} /\ reqs'[r].pc = "done"

\* the stored value v is a well-formed token whose exp lies after instant t
Unexpired(v, t) ==
  /\ v.present
  /\ Len(v.val) >= 2
  /\ v.val[2].json
  /\ v.val[2].hasExp
  /\ v.val[2].exp * 1000 > t

\* the stored value v is missing, empty, or a string jwtDecode rejects
Undecodable(v) ==
  \/ ~v.present
  \/ v.val = EmptyString
  \/ Len(v.val) < 2
  \/ ~v.val[2].json

\* C1: a data request that got 401 once, whose refresh succeeded and whose
\* retry was answered, settles with the answer to the retry, and key `token`
\* then holds the token the refresh call issued.
C1_RefreshedTokenStored ==
  [][\A r \in Slots :
       (/\ SettleAt(r)
        /\ reqs'[r].kind = "pokemons"
        /\ reqs'[r].n401 = 1
        /\ reqs'[r].refreshes = 1
        /\ Truthy(reqs'[r].issued)
        /\ reqs'[r].by # "TypeError")
       => (/\ reqs'[r].by = "response"
           /\ reqs'[r].sends = 2
           /\ storage'["token"] = reqs'[r].issued)]_vars

\* C2: the re-dispatch that follows a successful refresh carries
\* Authorization: Bearer <token issued by the refresh call>.
C2_RetryCarriesNewToken ==
  [][\A r \in Slots :
       RetryAt(r) => reqs'[r].auth = Bearer(reqs'[r].issued.val)]_vars

\* C3: when a request got 401 while an access token was stored and the
\* refresh call fails, the request settles with key `token` absent and with
\* exactly one redirect to /login triggered for it.
C3_RefreshFailureClearsToken ==
  [][\A r \in Slots :
       (/\ reqs[r].pc = "refreshing"
        /\ reqs'[r].pc = "done"
        /\ Truthy(storage["token"]))
       => (/\ ~storage'["token"].present
           /\ reqs'[r].redirects = 1
           /\ navPending' = "/login")]_vars

\* C4: a request causes at most one refresh call and goes out at most twice,
\* so at most three network calls; no refresh follows the retry, and a second
\* 401 is handed to the caller as the rejection.
C4_OneRefreshOneRetry ==
  \A r \in Slots :
    /\ reqs[r].refreshes <= 1
    /\ reqs[r].sends <= 2
    /\ reqs[r].sends + reqs[r].refreshes <= 3
    /\ (reqs[r].pc = "refreshing" => reqs[r].sends = 1)
    /\ (reqs[r].sends = 2 => reqs[r].refreshes = 1 /\ reqs[r].retry)
    /\ (reqs[r].n401 = 2 =>
          /\ reqs[r].pc = "done"
          /\ reqs[r].outcome = "rejected"
          /\ reqs[r].by = "response"
          /\ reqs[r].sends = 2
          /\ reqs[r].refreshes = 1)

C4_Witness ==
  \E r \in Slots : reqs[r].n401 = 2 /\ reqs[r].pc = "done"

\* C5: a protected view comes on screen only through a guarded render at
\* which key `token` holds an unexpired well-formed token; a guarded render
\* with any other value yields the redirect to /login, mounts nothing and
\* starts no effect; the pokemon fetch goes out only under a mounted Dashboard.
C5_GuardedRender ==
  [][/\ (view' \in Protected /\ view' # view) =>
          /\ guard' = "allow"
          /\ Unexpired(storage["token"], now)
     /\ (guard' # "none" /\ ~Unexpired(storage["token"], now)) =>
          /\ guard' = "deny"
          /\ location' = "/login"
          /\ view' = "pending"
          /\ ~effect'
     /\ effect' => view' = "Dashboard"
     /\ \A r \in Slots :
          (DispatchAt(r) /\ reqs'[r].kind = "pokemons" /\ reqs'[r].sends = 1)
            => view = "Dashboard" /\ effect]_vars

C5_Witness ==
  /\ guard = "deny"
  /\ location = "/login"
  /\ storage["token"] = Item(Jwt("A", 1))
  /\ now > 1000

\* C6: isTokenValid answers true exactly when the token is present, decodes,
\* and exp * 1000 is strictly greater than the current time in milliseconds.
C6_IsTokenValid ==
  guard # "none" =>
    LET res == isTokenValid(getItem("token"), now)
    IN /\ res.value <=> Unexpired(getItem("token"), now)
       /\ res.value <=> guard = "allow"
       /\ (~Undecodable(getItem("token"))
             /\ ~getItem("token").val[2].hasExp) => ~res.value
       /\ (~Undecodable(getItem("token"))
             /\ getItem("token").val[2].exp * 1000 <= now) => ~res.value

\* the guard ran on a token whose exp * 1000 equals the current time
C6_Witness ==
  /\ guard = "deny"
  /\ storage["token"] = Item(Jwt("A", 1))
  /\ now = 1000

\* C7: on a missing, empty or undecodable token isTokenValid returns false
\* without throwing, and the guard's outcome is the redirect to /login in
\* each of these cases.
C7_NoThrow ==
  (guard # "none" /\ Undecodable(getItem("token"))) =>
    LET res == isTokenValid(getItem("token"), now)
    IN /\ ~res.threw
       /\ ~res.value
       /\ guard = "deny"
       /\ location = "/login"
       /\ view = "pending"

C7_Witness ==
  /\ guard = "deny"
  /\ storage["token"] = Item(NotAJwt)

\* C8: a guarded render leaves every storage key as it was and sends no
\* request.
C8_GuardIsPure ==
  [][guard' # "none" =>
       /\ storage' = storage
       /\ \A r \in Slots :
            reqs'[r].pc \in {"sent", "refreshing"} => reqs'[r] = reqs[r]]_vars

C8_Witness ==
  /\ guard = "deny"
  /\ storage["token"] = Item(BadPayload)
  /\ location = "/login"

\* C9: every request that goes out carries Authorization: Bearer <value of
\* key `token` at that moment> when the key holds a non-empty value, and no
\* Authorization header when the key is absent.
C9_HeaderFollowsStorage ==
  [][\A r \in Slots :
       DispatchAt(r) =>
         /\ Truthy(storage'["token"]) =>
              reqs'[r].auth = Bearer(storage'["token"].val)
         /\ ~storage'["token"].present => reqs'[r].auth = NoHeader]_vars

\* C10: when login resolves with token X, LoginForm stores X under key
\* `token` in the step that navigates to /dashboard, and while the key holds
\* X every request that goes out carries Authorization: Bearer X.
C10_LoginTokenUsed ==
  [][\A r \in Slots :
       /\ (/\ SettleAt(r)
           /\ reqs'[r].kind = "login"
           /\ reqs'[r].outcome = "resolved"
           /\ Truthy(reqs'[r].body))
          => (/\ storage'["token"] = reqs'[r].body
              /\ location' = "/dashboard"
              /\ view' = "pending")
       /\ \A x \in LoginTokens :
            (DispatchAt(r) /\ storage'["token"] = Item(x))
              => reqs'[r].auth = Bearer(x)]_vars

\* the pokemon fetch is in flight with the token a login stored
C10_Witness ==
  \E r \in Slots : \E x \in LoginTokens :
    /\ reqs[r].pc = "sent"
    /\ reqs[r].kind = "pokemons"
    /\ storage["token"] = Item(x)
    /\ reqs[r].auth = Bearer(x)

\* C11: when the refresh call made for a request fails, the request's
\* promise is rejected with the refresh error, not with the 401 it received.
C11_RejectedWithRefreshError ==
  [][\A r \in Slots :
       (reqs[r].pc = "refreshing" /\ reqs'[r].pc = "done")
       => (/\ reqs'[r].outcome = "rejected"
           /\ reqs'[r].by = "refresh"
           /\ reqs'[r].status # 401 \/ reqs'[r].rstatus = 401)]_vars

\* a request that got 401 settled on a refresh call answered by a network error
C11_Witness ==
  \E r \in Slots :
    /\ reqs[r].pc = "done"
    /\ reqs[r].n401 = 1
    /\ reqs[r].by = "refresh"
    /\ reqs[r].rstatus = 0

\* C12: an answer with an error status other than 401 is handed to the caller
\* as the rejection, as it is, with no refresh call, no retry, no storage
\* write or delete and no redirect.
C12_OtherErrorsPassThrough ==
  [][\A r \in Slots :
       (/\ reqs[r].pc = "sent"
        /\ reqs'[r].sends = reqs[r].sends
        /\ reqs'[r].pc # "sent"
        /\ reqs'[r].pc # "idle"
        /\ reqs'[r].status \in {403, 500})
       => (/\ reqs'[r].pc = "done"
           /\ reqs'[r].outcome = "rejected"
           /\ reqs'[r].by = "response"
           /\ reqs'[r].refreshes = reqs[r].refreshes
           /\ reqs'[r].redirects = reqs[r].redirects
           /\ storage' = storage
           /\ navPending' = navPending
           /\ location' = location
           /\ view' = view)]_vars

\* a request settled on a 500 answer without any refresh call
C12_Witness ==
  \E r \in Slots :
    /\ reqs[r].pc = "done"
    /\ reqs[r].status = 500
    /\ reqs[r].by = "response"
    /\ reqs[r].refreshes = 0

\* C13: the refresh step takes the failure path exactly when the refresh call
\* ends in a network error or a status outside 2xx.
C13_FailureIffNon2xx ==
  [][\A r \in Slots :
       (reqs[r].pc = "refreshing" /\ reqs'[r].pc # "refreshing"
          /\ reqs'[r].pc # "idle")
       => (reqs'[r].by = "refresh" <=> ~validateStatus(reqs'[r].rstatus))]_vars

\* C13 as amended: the refresh step takes the success path exactly when the
\* refresh call is answered with status 200; a network error, a status
\* outside 2xx and a 2xx status other than 200 take the failure path.
C13_FailureIffNot200 ==
  [][\A r \in Slots :
       (reqs[r].pc = "refreshing" /\ reqs'[r].pc # "refreshing"
          /\ reqs'[r].pc # "idle")
       => (/\ reqs'[r].by = "refresh" <=> reqs'[r].rstatus # 200
           /\ reqs'[r].by = "refresh" =>
                /\ reqs'[r].pc = "done"
                /\ ~storage'["accessToken"].present
                /\ navPending' = "/login"
           /\ reqs'[r].rstatus = 200 =>
                /\ reqs'[r].pc = "sent"
                /\ reqs'[r].sends = 2
                /\ storage'["accessToken"].present
                /\ navPending' = navPending)]_vars

\* a refresh call answered 201 ended on the failure path
C13_Witness ==
  \E r \in Slots :
    /\ reqs[r].pc = "done"
    /\ reqs[r].by = "refresh"
    /\ reqs[r].rstatus = 201
    /\ navPending = "/login"

\* the request in slot r settles in this step as a fulfilled call that a
\* caller of the given kind made
FulfilledAt(r, kind) ==
  /\ SettleAt(r)
  /\ reqs'[r].kind = kind
  /\ reqs'[r].outcome = "resolved"

\* the refresh call made for the request in slot r fails in this step
RefreshFailedAt(r) ==
  /\ reqs[r].pc = "refreshing"
  /\ reqs'[r].pc = "done"
  /\ reqs'[r].by = "refresh"

\* C14: key `token` changes only in these ways: a fulfilled login or
\* registration, or a successful refresh, writes a token that the server
\* issued in that response; a completed logout or a failed refresh deletes
\* the key. No other value is ever written.
C14_TokenProvenance ==
  [][storage'["token"] # storage["token"] =>
       IF storage'["token"].present
         THEN \E r \in Slots :
                \/ /\ FulfilledAt(r, "login") \/ FulfilledAt(r, "register")
                   /\ Truthy(reqs'[r].body)
                   /\ storage'["token"] = reqs'[r].body
                \/ /\ RetryAt(r)
                   /\ Truthy(reqs'[r].issued)
                   /\ storage'["token"] = reqs'[r].issued
         ELSE \E r \in Slots :
                \/ SettleAt(r) /\ reqs'[r].kind = "logout"
                \/ RefreshFailedAt(r)]_vars

\* C15: when the logout started from the Dashboard has completed, whatever
\* the server answered, key `token` is absent.
C15_LogoutClearsToken ==
  [][\A r \in Slots :
       (SettleAt(r) /\ reqs'[r].kind = "logout")
         => ~storage'["token"].present]_vars

\* C16: from a handled refresh failure until the next successful login or
\* registration the route guard lets no protected view through.
C16_RefreshFailureIsTerminal ==
  terminal => guard # "allow"

\* C17: a call through the API client that the server answered with a 2xx
\* status resolves to the server's body, so AddPokemonForm, reading
\* `success` off the resolved value, reports success exactly when the body
\* says so.
C17_ResolvesToBody ==
  [][\A r \in Slots :
       FulfilledAt(r, "addPokemon")
         => (toast' = "added" <=> reqs'[r].success)]_vars

\* C18: a request that gets its first 401 starts a refresh call of its own
\* in that very step, whatever the other requests in flight are doing, and
\* leaves them as they are; so every request that has got a 401 has made
\* exactly one refresh call.
C18_IndependentRefresh ==
  [][\A r \in Slots :
       /\ (/\ reqs[r].pc = "sent"
           /\ ~reqs[r].retry
           /\ reqs'[r].n401 = reqs[r].n401 + 1)
          => /\ reqs'[r].pc = "refreshing"
             /\ reqs'[r].refreshes = reqs[r].refreshes + 1
             /\ \A q \in Slots \ {r} : reqs'[q] = Sweep(reqs)[q]
       /\ (reqs'[r].pc # "idle" /\ reqs'[r].n401 >= 1)
          => reqs'[r].refreshes = 1]_vars

\* every slot holds a request whose own refresh call is in flight
C18_Witness ==
  /\ Cardinality(Slots) >= 2
  /\ \A r \in Slots : reqs[r].pc = "refreshing" /\ reqs[r].refreshes = 1

\* C19: at most one refresh call is in flight at any time.
C19_SingleFlightRefresh ==
  Cardinality({ r \in Slots : reqs[r].pc = "refreshing" }) <= 1

\* C20: the retried mark belongs to one request: a new request goes out
\* unmarked whatever earlier or concurrent requests did, marking one request
\* marks no other, and a request's first 401 leads to its own refresh and,
\* the refresh succeeding, to its one retry.
C20_RetryMarkPerRequest ==
  [][\A r \in Slots :
       /\ (DispatchAt(r) /\ reqs'[r].sends = 1) => ~reqs'[r].retry
       /\ (~reqs[r].retry /\ reqs'[r].retry)
          => \A q \in Slots \ {r} : reqs'[q].retry = Sweep(reqs)[q].retry
       /\ (/\ reqs[r].pc = "sent"
           /\ reqs[r].sends = 1
           /\ reqs'[r].n401 = 1)
          => reqs'[r].pc = "refreshing" /\ reqs'[r].retry
       /\ RetryAt(r) => reqs'[r].sends = 2 /\ reqs'[r].retry]_vars

\* one request has used its retry while another one's refresh is in flight
C20_Witness ==
  \E r, q \in Slots :
    /\ r # q
    /\ reqs[r].retry /\ reqs[r].sends = 2 /\ reqs[r].pc = "sent"
    /\ reqs[q].pc = "refreshing" /\ reqs[q].sends = 1

\* C21: a refresh call made while key `token` holds a token that a login or
\* registration of this session stored carries a non-empty refresh token in
\* its body.
C21_RefreshTokenSupplied ==
  [][\A r \in Slots :
       (/\ reqs[r].pc = "sent"
        /\ reqs'[r].pc = "refreshing"
        /\ storage["token"].present
        /\ storage["token"].val \in LoginTokens)
       => Truthy(RefreshBody(storage).token)]_vars

\* C24 as stated: when the logout call is rejected, the step that hands the
\* rejection to the Dashboard changes neither storage nor the location, and
\* sets no redirect.
C24_FailedLogoutChangesNothing ==
  [][\A r \in Slots :
       (/\ SettleAt(r)
        /\ reqs'[r].kind = "logout"
        /\ reqs'[r].outcome = "rejected")
       => /\ storage' = storage
          /\ navPending' = navPending
          /\ location' = location
          /\ view' = view]_vars

\* C24: when the logout call is rejected, key `token` is left as it is and
\* the Dashboard stays on screen; if no refresh was attempted for the call,
\* storage is unchanged and no redirect is set.
C24_FailedLogoutKeepsSession ==
  [][\A r \in Slots :
       (/\ SettleAt(r)
        /\ reqs'[r].kind = "logout"
        /\ reqs'[r].outcome = "rejected")
       => /\ storage'["token"] = storage["token"]
          /\ location' = location
          /\ view' = view
          /\ reqs'[r].refreshes = 0
               => storage' = storage /\ navPending' = navPending]_vars

\* the logout call was answered 500 and the Dashboard is still on screen
\* with the token in storage
C24_Witness ==
  /\ view = "Dashboard"
  /\ Truthy(storage["token"])
  /\ navPending = NoNav
  /\ \E r \in Slots :
       /\ reqs[r].pc = "done"
       /\ reqs[r].kind = "logout"
       /\ reqs[r].outcome = "rejected"
       /\ reqs[r].status = 500

\* C25: key `token`, once absent, is set again only by the step in which a
\* login or registration is fulfilled: no answer to a request that was in
\* flight when the logout removed the key, no refresh and no retry brings
\* it back.  Holds in Spec, where logins happen, as well.
C25_NoLateTokenWrite ==
  [][(~storage["token"].present /\ storage'["token"].present)
       => \E r \in Slots :
            FulfilledAt(r, "login") \/ FulfilledAt(r, "register")]_vars

\* the logout has removed the key, and a request that was in flight at that
\* time has since been refreshed and retried
C25_Witness ==
  /\ ~storage["token"].present
  /\ \E r \in Slots :
       /\ reqs[r].pc = "sent"
       /\ reqs[r].sends = 2
       /\ reqs[r].auth = Bearer(ObjectString)

\* how many render redirects can still follow at a path
RedirectRank(path) ==
  CASE path \in {"/login", "/register"}               -> 0
    [] path \in {"/", "/dashboard", "/add-pokemon"}   -> 1
    [] OTHER                                          -> 2

\* C26: with nobody navigating, every render redirect lowers the rank of the
\* path, which is at most two: `/` goes to /login, a protected path goes to
\* /login and only when the token is not valid, any other path goes to
\* /dashboard, and /login and /register stay where they are whatever the
\* token.
C26_RedirectsTerminate ==
  [][/\ location' # location =>
          /\ RedirectRank(location') < RedirectRank(location)
          /\ location = "/" => location' = "/login"
          /\ location \in {"/dashboard", "/add-pokemon"} =>
               /\ location' = "/login"
               /\ ~Unexpired(storage["token"], now)
          /\ RedirectRank(location) = 2 => location' = "/dashboard"
     /\ location \in {"/login", "/register"} => location' = location]_vars

\* the guard has just sent a render on to /login: the last redirect of a
\* chain
C26_Witness ==
  /\ guard = "deny"
  /\ location = "/login"
  /\ view = "pending"
  /\ Unexpired(storage["token"], 0)

\* C22: in the guide's client a refresh request never starts a refresh of
\* its own, so a request that got 401 causes at most one refresh call.
C22_NoNestedRefresh ==
  \A r \in Slots :
    /\ reqs[r].kind = "refresh" => reqs[r].refreshes = 0
    /\ r > 2 => reqs[r].pc = "idle"

\* C23: under the notes' interceptor every request that went out settles
\* in the end, however the server answers it and its retries.
C23_RetriesEnd ==
  \A r \in 1..MaxConc :
    [](reqs[r].pc = "sent" => <>(reqs[r].pc \in {"idle", "done"}))

\* C27: a request that ends without an HTTP answer is rejected with the
\* error axios raised for it, with no refresh call, no storage change and no
\* redirect.
C27_NetworkErrorPassedOn ==
  [][\A r \in Slots :
       (/\ reqs[r].pc = "sent"
        /\ reqs'[r].pc = "done"
        /\ reqs'[r].outcome = "rejected"
        /\ reqs'[r].status = 0)
       => /\ reqs'[r].by = "response"
          /\ reqs'[r].refreshes = reqs[r].refreshes
          /\ storage' = storage
          /\ navPending' = navPending]_vars

\* C28: a submit of LoginForm or RegisterForm changes neither storage nor
\* the route, and sends its request exactly when username and password are
\* non-empty and, for RegisterForm, the password has at least six
\* characters; otherwise nothing is sent.  A form leaves for /dashboard only
\* in the step in which its request is fulfilled with an answer it accepts
\* (a token for LoginForm, success for RegisterForm).
C28_FormsValidate ==
  [][/\ (view = "Login" /\ typed' # NoForm) =>
          LET ok == typed'.username # "" /\ typed'.password # << >>
          IN /\ storage' = storage /\ location' = location /\ view' = view
             /\ ok <=> \E r \in Slots :
                         DispatchAt(r) /\ reqs'[r].kind = "login"
             /\ ~ok => reqs' = Sweep(reqs)
     /\ (view = "Register" /\ typed' # NoForm) =>
          LET ok == /\ typed'.username # ""
                    /\ Len(typed'.password) >= MinPasswordLength
          IN /\ storage' = storage /\ location' = location /\ view' = view
             /\ ok <=> \E r \in Slots :
                         DispatchAt(r) /\ reqs'[r].kind = "register"
             /\ ~ok => reqs' = Sweep(reqs)
     /\ \A r \in Slots :
          (SettleAt(r) /\ location' # location) =>
            /\ location' = "/dashboard"
            /\ \/ FulfilledAt(r, "login") /\ Truthy(reqs'[r].body)
               \/ FulfilledAt(r, "register") /\ reqs'[r].success]_vars

\* RegisterForm has just turned down a password of three characters
C28_Witness ==
  /\ view = "Register"
  /\ toast = "short-password"
  /\ typed # NoForm
  /\ typed.username = "ash"
  /\ Len(typed.password) = 3
  /\ \A r \in Slots : reqs[r].pc = "idle"

\* C29: AddPokemonForm sends its POST only with all nine fields filled; when
\* the POST is fulfilled and the body reports success the form shows the
\* success state and all nine fields are empty again; in every other
\* outcome the fields stay as entered.
C29_AddPokemonForm ==
  [][\A r \in Slots :
       /\ (DispatchAt(r) /\ reqs'[r].kind = "addPokemon"
              /\ reqs'[r].sends = 1)
            => \A f \in Fields : formData'[f] # ""
       /\ (FulfilledAt(r, "addPokemon") /\ reqs'[r].success)
            => toast' = "added" /\ formData' = [f \in Fields |-> ""]
       /\ (/\ SettleAt(r)
           /\ reqs'[r].kind = "addPokemon"
           /\ ~(reqs'[r].outcome = "resolved" /\ reqs'[r].success))
            => formData' = formData]_vars

Init ==
  /\ storage \in { [k \in Keys |-> IF k = "token" THEN t ELSE Null] :
                     t \in InitTokens }
  /\ now = 0
  /\ location \in Paths
  /\ view = "pending"
  /\ guard = "none"
  /\ effect = FALSE
  /\ navPending = NoNav
  /\ toast = "none"
  /\ terminal = FALSE
  /\ formData = NoForm
  /\ typed = NoForm
  /\ reqs = [r \in 1..MaxReq |-> Idle]

Next ==
  \/ App
  \/ Tick
  \/ UserNavigate
  \/ PageLoad
  \/ LoginSubmit
  \/ RegisterSubmit
  \/ AddPokemonSubmit
  \/ DashboardEffect
  \/ LogoutClick
  \/ \E r \in Slots : Response(r)
  \/ \E r \in Slots : RefreshResponse(r)

Spec == Init /\ [][Next]_vars

\* The route table on its own: a page opened at any path with any stored
\* value, rendering while time passes and nobody navigates.
NextRoutes ==
  \/ App
  \/ Tick

SpecRoutes == Init /\ [][NextRoutes]_vars

\* The guide's client on its own: a page that sends one request at a time
\* through it.
InitGuide ==
  /\ storage \in { [k \in Keys |-> IF k = "accessToken" THEN t ELSE Null] :
                     t \in {Null} \cup { Item(Jwt("A", e)) : e \in 1..MaxSec } }
  /\ now = 0
  /\ location = "/dashboard"
  /\ view = "Dashboard"
  /\ guard = "none"
  /\ effect = FALSE
  /\ navPending = NoNav
  /\ toast = "none"
  /\ terminal = FALSE
  /\ formData = NoForm
  /\ typed = NoForm
  /\ reqs = [r \in 1..MaxNest |-> Idle]

NextGuide ==
  \/ guideRequest
  \/ PageLoad
  \/ \E r \in Slots : guideResponse(r)

SpecGuide == InitGuide /\ [][NextGuide]_vars

\* The notes' interceptor on its own: a page that sends requests through
\* the global axios.  Every request and every refreshToken() call gets its
\* answer in the end.
InitNotes ==
  /\ storage \in { [k \in Keys |-> IF k = "authToken" THEN t ELSE Null] :
                     t \in {Null} \cup { Item(Jwt("A", e)) : e \in 1..MaxSec } }
  /\ now = 0
  /\ location = "/dashboard"
  /\ view = "Dashboard"
  /\ guard = "none"
  /\ effect = FALSE
  /\ navPending = NoNav
  /\ toast = "none"
  /\ terminal = FALSE
  /\ formData = NoForm
  /\ typed = NoForm
  /\ reqs = [r \in 1..MaxConc |-> Idle]

NextNotes ==
  \/ notesRequest
  \/ PageLoad
  \/ \E r \in Slots : notesResponse(r)
  \/ \E r \in Slots : notesRefreshDone(r)

SpecNotes ==
  /\ InitNotes
  /\ [][NextNotes]_vars
  /\ \A r \in 1..MaxConc :
       WF_vars(notesResponse(r)) /\ WF_vars(notesRefreshDone(r))

\* Requests in flight side by side: the Dashboard opened with a token that
\* the guard admits, its fetch and the logout button sending requests while
\* earlier ones are still unanswered.
InitConc ==
  /\ storage = [k \in Keys |-> IF k = "token"
                                 THEN Item(Jwt("A", MaxSec)) ELSE Null]
  /\ now = 0
  /\ location = "/dashboard"
  /\ view = "pending"
  /\ guard = "none"
  /\ effect = FALSE
  /\ navPending = NoNav
  /\ toast = "none"
  /\ terminal = FALSE
  /\ formData = NoForm
  /\ typed = NoForm
  /\ reqs = [r \in 1..MaxConc |-> Idle]

NextConc ==
  \/ App
  \/ PageLoad
  \/ DashboardEffect
  \/ LogoutClick
  \/ \E r \in Slots : Response(r)
  \/ \E r \in Slots : RefreshResponse(r)

SpecConc == InitConc /\ [][NextConc]_vars

====
